---- MODULE Spec2Model ----
(***************************************************************************)
(* The download path of galaxi: DownloadManager::download_file and the     *)
(* pause/cancel/progress operations (rust/src/api/download.rs), and the    *)
(* start_download / download_and_install entry points that drive it from   *)
(* a spawned background task (rust/src/api/simple.rs).                     *)
(*                                                                         *)
(* Sizes are byte counts.  A file's content is a sequence of blocks        *)
(* [src, lo, hi): the bytes lo..hi-1 of the body the server holds for the  *)
(* final path src.  Adjacent blocks of one body are kept merged, so a      *)
(* complete and correct file f is <<[f, 0, size)>>.                        *)
(*                                                                         *)
(* Scope: one background task per game id at a time (the spec leaves       *)
(* concurrent requests for one id unspecified), and download_and_install   *)
(* is followed up to its call of install_game (the installer and the       *)
(* clean-up of the downloads directory are external collaborators).        *)
(*                                                                         *)
(* Specifications:                                                         *)
(*   Spec          one game of two files, the API calls, pause and cancel  *)
(*   SpecPolled    the same under an interface that polls get_progress     *)
(*   SpecTwo       two games of one file each, fetched side by side        *)
(*   SpecFrame     two games fetched one after the other, with the         *)
(*                 read-only calls                                         *)
(*   SpecChecksum  verify_checksum applied to files and expected digests   *)
(*   SpecResume    download_file called with and without resume over       *)
(*                 staging files around MINIMUM_RESUME_SIZE                *)
(*   SpecStem      Spec on a game whose two files share their stem         *)
(*   SpecLocks     one game, with every lock acquisition a step            *)
(*   SpecLocksFair SpecLocks with lock holders that keep running and       *)
(*                 mutexes that serve every waiter                         *)
(*   SpecCancel    Spec with every cancel_download noted against the       *)
(*                 transfer it was issued for                              *)
(*   SpecRetry     download_file retried for ever against a server that    *)
(*                 honours Range and never fails                           *)
(***************************************************************************)
EXTENDS Integers, Sequences, FiniteSets, TLC

VARIABLES
    catalog,    \* game id -> the save paths of download_info.files, in order
    fs,         \* path -> file of the .downloads directory
    table,      \* active_downloads: game id -> DownloadProgress
    task,       \* game id -> the background task spawned by start_download
    caller,     \* game id -> the API call in progress for that id
    net,        \* game id -> requests the current background task has issued
    cancelled,  \* game id -> cancel_download hit the running transfer's stream
    requests,   \* number of start_download calls made so far
    polled,     \* the last get_progress or get_active_downloads call and its result
    checked,    \* the verify_checksum call: its arguments and its result
    call,       \* the pause, cancel or read call that asks for or holds a lock
    noted       \* game id -> the download_file that the last cancel_download met

\* what the callers of the read-only operations hold, the call in progress and
\* the note of the last cancel
ui == <<polled, checked, call, noted>>

vars == <<catalog, fs, table, task, caller, net, cancelled, requests, ui>>

----------------------------------------------------------------------------
\* Bounds of the model

\* start_download / download_and_install calls in one behaviour
MaxRequests == 2
\* chunks in the body of a game's first file (the other files hold one chunk)
FileChunks == 3
\* start_download / download_and_install calls a polling user interface follows
MaxPolledRequests == 1

----------------------------------------------------------------------------
\* Program constants and data

MiB == 1024 * 1024

MINIMUM_RESUME_SIZE == 20 * 1024 * 1024

\* the length of every chunk the body stream yields but the last
ChunkLen == 10 * MiB

\* the game ids the catalog may know
Ids == {1}

Path(s, e) == [stem |-> s, ext |-> e]

\* PathBuf::with_extension: the extension is replaced, not appended to
with_extension(p, e) == [p EXCEPT !.ext = e]

\* the files of each game: an installer and its data file
Catalogs ==
    { [id \in Ids |-> <<Path("setup_a", "exe"), Path("setup_a-1", "bin")>>] }

\* two games of one file each, for transfers that run side by side
TwoGames == [id \in {1, 2} |-> <<Path(IF id = 1 THEN "setup_b" ELSE "setup_c", "exe")>>]

\* a game whose two files differ in their extension only
SameStem == [id \in Ids |-> <<Path("setup_d", "exe"), Path("setup_d", "bin")>>]

FinalPaths ==
    UNION { UNION { { c[id][i] : i \in 1..Len(c[id]) } : id \in DOMAIN c } :
              c \in Catalogs \cup {TwoGames, SameStem} }

AllPaths == FinalPaths \cup { with_extension(p, "part") : p \in FinalPaths }

\* what the server holds for the link of save path p
ServerSize(p) ==
    IF \E c \in Catalogs \cup {SameStem}, id \in Ids : c[id][1] = p
    THEN FileChunks * ChunkLen
    ELSE IF p = TwoGames[2][1] THEN 2 * ChunkLen ELSE ChunkLen

\* installer_path of a call that has not computed it
NoPath == Path("", "")

NoFile == [exists |-> FALSE, data |-> <<>>]

EmptyFile == [exists |-> TRUE, data |-> <<>>]

RECURSIVE DataLen(_)
DataLen(d) == IF d = <<>> THEN 0 ELSE (Head(d).hi - Head(d).lo) + DataLen(Tail(d))

\* fs::metadata(..).len()
FileLen(f) == DataLen(f.data)

\* write_all on a file opened by File::create or in append mode
AppendBlock(d, b) ==
    IF b.hi = b.lo THEN d
    ELSE IF d # <<>> /\ d[Len(d)].src = b.src /\ d[Len(d)].hi = b.lo
         THEN [d EXCEPT ![Len(d)].hi = b.hi]
         ELSE Append(d, b)

Statuses == {"Pending", "Downloading", "Paused", "Completed", "Failed", "Cancelled"}

Terminal == {"Completed", "Failed", "Cancelled"}

\* percentage: (downloaded / total_size) * 100.0, or 0.0 for an unknown total.
\* The f64 is kept as the exact quotient <<n, d>> that stands for 100 * n / d.
Percentage(downloaded, total_size) ==
    IF total_size > 0 THEN <<downloaded, total_size>> ELSE <<0, 1>>

\* 100.0
Hundred == <<1, 1>>

Ok == [kind |-> "Ok", msg |-> ""]

Err(k, m) == [kind |-> k, msg |-> m]

NoRet == [kind |-> "none", msg |-> ""]

NoBody == [lo |-> 0, hi |-> 0]

\* HashMap::new()
EmptyTable == [i \in {} |-> NoRet]

\* Option<T>: None, Some(x)
None == <<>>

Some(x) == <<x>>

\* what the caller of the last read-only call holds: progress is the Option a
\* get_progress(id) returned, active the records a get_active_downloads
\* returned; request and file tell when it was made (the number of
\* start_download calls so far, and the file the running download_file of the
\* id was at, 0 when none was running)
NotPolled ==
    [op |-> "none", id |-> 0, progress |-> None, active |-> {}, request |-> 0, file |-> 0]

\* no pause, cancel or read call is in progress.  A call in progress is at
\* "asked" (it awaits the lock of the DownloadManager), at "manager" (it holds the lock of the DownloadManager), at "unlocked" (it
\* has dropped that lock and awaits the lock of the table) or at "table" (it
\* holds the lock of the table)
NoCall == [pc |-> "none", op |-> "none", id |-> 0]

\* a download_file is named by the number of the start_download request and
\* the index of its file; this names none
NoTransfer == <<0, 0>>

\* no verify_checksum call has been made
NoCheck == [pc |-> "none", path |-> NoPath, expected_md5 |-> <<>>,
            ret |-> [kind |-> "none", value |-> FALSE]]

\* the locals of the task: resume is the flag download_file is called with,
\* range the resumed offset of the GET that was accepted, header the Range
\* header of that GET (None: no such header), status the status of its response
\* (0: none yet), body the bytes of the response body not yet read, ret what
\* download_file returned last, locked whether it holds the lock of the table
IdleTask ==
    [pc |-> "idle", idx |-> 0, needs_download |-> <<>>, resume |-> TRUE,
     downloaded |-> 0, total_size |-> 0, range |-> 0, header |-> None, status |-> 0,
     body |-> NoBody, ret |-> NoRet, locked |-> FALSE]

\* the Result an API call of simple.rs returns
CallRet(k, m, p) == [kind |-> k, msg |-> m, path |-> p]

IdleCaller ==
    [pc |-> "idle", op |-> "none", installer_path |-> NoPath, seen |-> "none",
     ret |-> CallRet("none", "", NoPath)]

\* the complete file the server holds for p
ServerFile(p) ==
    [exists |-> TRUE, data |-> <<[src |-> p, lo |-> 0, hi |-> ServerSize(p)]>>]

\* the .downloads directory when the application starts: empty, or holding the
\* installers an earlier session kept
EmptyDir == [p \in AllPaths |-> NoFile]

KeptInstallers(c) ==
    [p \in AllPaths |->
        IF \E id \in DOMAIN c : \E i \in 1..Len(c[id]) : c[id][i] = p
        THEN ServerFile(p) ELSE NoFile]

\* the directory after a session that fetched each game's installer and
\* failed on the files after it
KeptFirst(c) ==
    [p \in AllPaths |->
        IF \E id \in DOMAIN c : c[id][1] = p THEN ServerFile(p) ELSE NoFile]

\* the games of the catalog
Games == DOMAIN catalog

\* a loop that calls download_file for the last file of the list at every turn
save_path_last(id) == catalog[id][Len(catalog[id])]

save_path(id) == catalog[id][task[id].idx]

temp_path(id) == with_extension(save_path(id), "part")

----------------------------------------------------------------------------
Init ==
    /\ catalog \in Catalogs
    /\ fs \in {EmptyDir, KeptInstallers(catalog)}
    /\ table = EmptyTable
    /\ task = [id \in Games |-> IdleTask]
    /\ caller = [id \in Games |-> IdleCaller]
    /\ net = [id \in Games |-> {}]
    /\ cancelled = [id \in Games |-> FALSE]
    /\ noted = [id \in Games |-> NoTransfer]
    /\ requests = 0
    /\ polled = NotPolled
    /\ checked = NoCheck
    /\ call = NoCall

----------------------------------------------------------------------------
\* start_download and download_and_install (simple.rs)

Ops == {"start_download", "download_and_install"}

\* every file is fetched again, present or not
NeedsDownloadAlways(id) == [i \in 1..Len(catalog[id]) |-> TRUE]

\* needs_download: one flag per file, !save_path.exists()
NeedsDownload(id) ==
    [i \in 1..Len(catalog[id]) |-> ~fs[catalog[id][i]].exists]

\* the spawned task of start_download, before its first loop iteration; every
\* download_file it calls is called with resume = true
SpawnedTask(id) ==
    [IdleTask EXCEPT !.pc = "loop", !.idx = 1, !.needs_download = NeedsDownload(id),
                     !.resume = TRUE]

\* what the caller does with Ok(installer_path) of start_download
AfterStart(c, path) ==
    IF c.op = "start_download"
    THEN [c EXCEPT !.pc = "idle", !.ret = CallRet("Ok", "", path)]
    ELSE [c EXCEPT !.pc = "poll", !.installer_path = path]

\* start_download fails before it looks at the files: not authenticated, game
\* not in the cache, the catalog or link request fails, create_dir_all fails
StartDownloadFails(id, op) ==
    /\ caller[id].pc = "idle"
    /\ task[id].pc = "idle"
    /\ requests < MaxRequests
    /\ requests' = requests + 1
    /\ caller' = [caller EXCEPT ![id] =
                    [IdleCaller EXCEPT !.op = op, !.ret = CallRet("StartError", "", NoPath)]]
    /\ UNCHANGED <<catalog, fs, table, task, net, cancelled, ui>>

\* start_download up to its return (all files present) or its tokio::spawn
StartDownload(id, op) ==
    /\ caller[id].pc = "idle"
    /\ task[id].pc = "idle"
    /\ requests < MaxRequests
    /\ requests' = requests + 1
    /\ LET needs_download == NeedsDownload(id)
           installer_path == catalog[id][1]
           all_downloaded == \A i \in DOMAIN needs_download : ~needs_download[i]
           c == [IdleCaller EXCEPT !.op = op]
       IN IF all_downloaded
          THEN /\ caller' = [caller EXCEPT ![id] = AfterStart(c, installer_path)]
               /\ UNCHANGED <<task, net>>
          ELSE /\ caller' = [caller EXCEPT ![id] =
                                [c EXCEPT !.pc = "spawned",
                                          !.installer_path = installer_path]]
               /\ task' = [task EXCEPT ![id] = SpawnedTask(id)]
               /\ net' = [net EXCEPT ![id] = {}]
    /\ UNCHANGED <<catalog, fs, table, cancelled, ui>>

\* a start_download that awaits the JoinHandle of its task before it returns
StartDownloadAwaitsTask(id) ==
    /\ caller[id].pc = "spawned"
    /\ task[id].pc = "idle"
    /\ caller' = [caller EXCEPT ![id] = AfterStart(@, @.installer_path)]
    /\ UNCHANGED <<catalog, fs, table, task, net, cancelled, requests, ui>>

\* Ok(installer_path) after the spawn
StartDownloadReturn(id) ==
    /\ caller[id].pc = "spawned"
    /\ caller' = [caller EXCEPT ![id] = AfterStart(@, @.installer_path)]
    /\ UNCHANGED <<catalog, fs, table, task, net, cancelled, requests, ui>>

\* a polling loop that breaks on any record, whatever its status
PollBreaksOnAnyRecord(id) ==
    /\ caller[id].pc = "poll"
    /\ caller' = [caller EXCEPT ![id] =
         [@ EXCEPT !.pc = "install",
                   !.seen = IF id \in DOMAIN table THEN "Completed" ELSE "None"]]
    /\ UNCHANGED <<catalog, fs, table, task, net, cancelled, requests, ui>>

\* one iteration of the polling loop of download_and_install
Poll(id) ==
    /\ caller[id].pc = "poll"
    /\ caller' = [caller EXCEPT ![id] =
         IF id \notin DOMAIN table
         THEN [@ EXCEPT !.pc = "install", !.seen = "None"]
         ELSE CASE table[id].status = "Completed" ->
                     [@ EXCEPT !.pc = "install", !.seen = "Completed"]
                [] table[id].status = "Failed" ->
                     [@ EXCEPT !.pc = "idle", !.seen = "Failed",
                               !.ret = CallRet("DownloadError", "Download failed", NoPath)]
                [] table[id].status = "Cancelled" ->
                     [@ EXCEPT !.pc = "idle", !.seen = "Cancelled",
                               !.ret = CallRet("DownloadError", "Download cancelled", NoPath)]
                [] OTHER -> @]
    /\ UNCHANGED <<catalog, fs, table, task, net, cancelled, requests, ui>>

\* install_game(game_id, installer_path): its check that the installer exists
Install(id) ==
    /\ caller[id].pc = "install"
    /\ LET installer_path == caller[id].installer_path
       IN caller' = [caller EXCEPT ![id] =
            [@ EXCEPT !.pc = "idle",
                      !.ret = IF fs[installer_path].exists
                              THEN CallRet("Installed", "", installer_path)
                              ELSE CallRet("InstallError", "Installer file not found",
                                           installer_path)]]
    /\ UNCHANGED <<catalog, fs, table, task, net, cancelled, requests, ui>>

----------------------------------------------------------------------------
\* The background task: the loop over the files and download_file

\* download_file returns r: the task is back at the head of its loop
Returned(t, r) ==
    [t EXCEPT !.pc = "loop", !.idx = @ + 1, !.downloaded = 0, !.total_size = 0,
              !.range = 0, !.header = None, !.status = 0, !.body = NoBody,
              !.ret = r, !.locked = FALSE]

\* a resume check that wants more than MINIMUM_RESUME_SIZE bytes
ResumeOffsetAbove(resume, f) ==
    IF resume /\ f.exists /\ FileLen(f) > MINIMUM_RESUME_SIZE THEN FileLen(f) ELSE 0

\* the resumed offset: the size of the staging file, if resume is set, the
\* file exists and holds at least MINIMUM_RESUME_SIZE bytes
ResumeOffset(resume, f) ==
    IF resume /\ f.exists /\ FileLen(f) >= MINIMUM_RESUME_SIZE THEN FileLen(f) ELSE 0

\* the loop is over: the task ends
TaskEnd(id) ==
    /\ task[id].pc = "loop"
    /\ task[id].idx > Len(catalog[id])
    /\ task' = [task EXCEPT ![id] = IdleTask]
    /\ cancelled' = [cancelled EXCEPT ![id] = FALSE]
    /\ UNCHANGED <<catalog, fs, table, caller, net, requests, ui>>

\* a file that was present when start_download looked: continue
SkipFile(id) ==
    /\ task[id].pc = "loop"
    /\ task[id].idx <= Len(catalog[id])
    /\ ~task[id].needs_download[task[id].idx]
    /\ task' = [task EXCEPT ![id].idx = @ + 1]
    /\ UNCHANGED <<catalog, fs, table, caller, net, cancelled, requests, ui>>

\* download_file(real_link, save_path, game_id, resume) up to the HEAD request
DownloadBegin(id) ==
    /\ task[id].pc = "loop"
    /\ task[id].idx <= Len(catalog[id])
    /\ task[id].needs_download[task[id].idx]
    /\ cancelled' = [cancelled EXCEPT ![id] = FALSE]
    /\ \/ task' = [task EXCEPT ![id] =
                     [@ EXCEPT !.pc = "head", !.ret = NoRet,
                               !.downloaded = ResumeOffset(task[id].resume,
                                                           fs[temp_path(id)])]]
       \/ \* create_dir_all or fs::metadata fails
          task' = [task EXCEPT ![id] = Returned(@, Err("FileSystemError", "metadata"))]
    /\ UNCHANGED <<catalog, fs, table, caller, net, requests, ui>>

HeadResponses == {"error", "no content-length", "content-length"}

\* the HEAD probe and total_size
HeadProbe(id) ==
    /\ task[id].pc = "head"
    /\ net' = [net EXCEPT ![id] = @ \cup {<<save_path(id), "HEAD">>}]
    /\ \E r \in HeadResponses :
         task' = [task EXCEPT ![id] =
            CASE r = "error" -> Returned(@, Err("NetworkError", "HEAD send"))
              [] r = "no content-length" -> [@ EXCEPT !.pc = "insert", !.total_size = 0]
              [] OTHER -> [@ EXCEPT !.pc = "insert",
                                    !.total_size = ServerSize(save_path(id))]]
    /\ UNCHANGED <<catalog, fs, table, caller, cancelled, requests, ui>>

\* the DownloadProgress download_file builds before the GET
InitialProgress(id, path, downloaded, total_size) ==
    [game_id |-> id, file_name |-> path, downloaded |-> downloaded,
     total |-> total_size, percentage |-> Percentage(downloaded, total_size),
     status |-> "Downloading", error |-> "None"]

\* a download_file that sends its GET without a record in the table
InsertProgressMissing(id) ==
    /\ task[id].pc = "insert"
    /\ task' = [task EXCEPT ![id].pc = "get"]
    /\ UNCHANGED <<catalog, fs, table, caller, net, cancelled, requests, ui>>

\* entry(game_id).or_insert(progress): a record the id already has is kept
InsertProgressKeepsOld(id) ==
    /\ task[id].pc = "insert"
    /\ table' = IF id \in DOMAIN table
                THEN table
                ELSE (id :> InitialProgress(id, save_path(id), task[id].downloaded,
                                            task[id].total_size)) @@ table
    /\ task' = [task EXCEPT ![id].pc = "get"]
    /\ UNCHANGED <<catalog, fs, caller, net, cancelled, requests, ui>>

\* downloads.insert(game_id, progress); the lock of the table is released at
\* the end of the block
InsertProgress(id) ==
    /\ task[id].pc = "insert"
    /\ table' = (id :> InitialProgress(id, save_path(id), task[id].downloaded,
                                       task[id].total_size)) @@ table
    /\ task' = [task EXCEPT ![id].pc = "get", ![id].locked = FALSE]
    /\ UNCHANGED <<catalog, fs, caller, net, cancelled, requests, ui>>

\* what a server may answer to the GET: a status and the bytes of its body.
\* Without a Range header: the whole body.  With Range bytes=offset-: 206 and
\* the bytes from offset on, 416 when there are none, or, from a server that
\* ignores Range, 200 and the whole body.
GetResponses(offset, size) ==
    IF offset = 0
    THEN { [status |-> 200, lo |-> 0, hi |-> size],
           [status |-> 201, lo |-> 0, hi |-> size],
           [status |-> 404, lo |-> 0, hi |-> 0] }
    ELSE { [status |-> 200, lo |-> 0, hi |-> size],
           [status |-> 404, lo |-> 0, hi |-> 0] }
         \cup (IF offset < size
               THEN { [status |-> 206, lo |-> offset, hi |-> size] }
               ELSE { [status |-> 416, lo |-> 0, hi |-> 0] })

\* request.header("Range", format!("bytes={}-", downloaded)), if downloaded > 0
RangeHeader(downloaded) == IF downloaded > 0 THEN Some(downloaded) ELSE None

\* response.status().is_success() || response.status().as_u16() == 206
Accepted(status) == (200 <= status /\ status < 300) \/ status = 206

\* the GET request, its response and the check of its status
GetRequest(id) ==
    /\ task[id].pc = "get"
    /\ net' = [net EXCEPT ![id] = @ \cup {<<save_path(id), "GET">>}]
    /\ \/ task' = [task EXCEPT ![id] = Returned(@, Err("NetworkError", "GET send"))]
       \/ \E r \in GetResponses(task[id].downloaded, ServerSize(save_path(id))) :
            task' = [task EXCEPT ![id] =
               IF Accepted(r.status)
               THEN [@ EXCEPT !.pc = "open", !.range = task[id].downloaded,
                              !.header = RangeHeader(task[id].downloaded),
                              !.status = r.status,
                              !.body = [lo |-> r.lo, hi |-> r.hi]]
               ELSE Returned(@, Err("DownloadError", "HTTP error"))]
    /\ UNCHANGED <<catalog, fs, table, caller, cancelled, requests, ui>>

\* the staging file is created anew even when the transfer resumes
OpenStagingTruncates(id) ==
    /\ task[id].pc = "open"
    /\ task' = [task EXCEPT ![id].pc = "stream"]
    /\ fs' = [fs EXCEPT ![temp_path(id)] = EmptyFile]
    /\ UNCHANGED <<catalog, table, caller, net, cancelled, requests, ui>>

\* the staging file is opened for append whatever the offset
OpenStagingAppends(id) ==
    /\ task[id].pc = "open"
    /\ task' = [task EXCEPT ![id].pc = "stream"]
    /\ fs' = [fs EXCEPT ![temp_path(id)].exists = TRUE]
    /\ UNCHANGED <<catalog, table, caller, net, cancelled, requests, ui>>

\* the staging file is opened for append (downloaded > 0) or created/truncated
OpenStaging(id) ==
    /\ task[id].pc = "open"
    /\ \/ /\ task[id].downloaded > 0
          /\ fs[temp_path(id)].exists
          /\ task' = [task EXCEPT ![id].pc = "stream"]
          /\ fs' = fs
       \/ /\ task[id].downloaded = 0
          /\ task' = [task EXCEPT ![id].pc = "stream"]
          /\ fs' = [fs EXCEPT ![temp_path(id)] = EmptyFile]
       \/ \* OpenOptions::open or File::create fails
          /\ task' = [task EXCEPT ![id] = Returned(@, Err("FileSystemError", "open"))]
          /\ fs' = fs
    /\ UNCHANGED <<catalog, table, caller, net, cancelled, requests, ui>>

\* the next chunk of the body: at most ChunkLen bytes
NextChunk(id) ==
    LET b == task[id].body
        n == IF b.hi - b.lo < ChunkLen THEN b.hi - b.lo ELSE ChunkLen
    IN [src |-> save_path(id), lo |-> b.lo, hi |-> b.lo + n]

\* a copy that leaves the staging file behind
RenameKeepsSource(files, from, to) == [files EXCEPT ![to] = files[from]]

\* fs::rename(&temp_path, save_path)
Rename(files, from, to) ==
    IF from = to THEN files
    ELSE [files EXCEPT ![to] = files[from], ![from] = NoFile]

\* a chunk loop that promotes the staging file when the connection breaks
StreamNextPromotesPartial(id) ==
    /\ task[id].pc = "stream"
    /\ \/ /\ task[id].body.hi > task[id].body.lo
          /\ LET chunk == NextChunk(id)
             IN /\ fs' = [fs EXCEPT ![temp_path(id)].data = AppendBlock(@, chunk)]
                /\ task' = [task EXCEPT ![id] =
                     [@ EXCEPT !.pc = "update",
                               !.downloaded = @ + (chunk.hi - chunk.lo),
                               !.body.lo = chunk.hi]]
       \/ /\ task[id].body.hi > task[id].body.lo
          /\ task' = [task EXCEPT ![id] = Returned(@, Err("DownloadError", "stream"))]
          /\ fs' = Rename(fs, temp_path(id), save_path(id))
       \/ /\ task[id].body.hi > task[id].body.lo
          /\ task' = [task EXCEPT ![id] = Returned(@, Err("FileSystemError", "write_all"))]
          /\ fs' = fs
       \/ /\ task[id].body.hi = task[id].body.lo
          /\ fs[temp_path(id)].exists
          /\ fs' = Rename(fs, temp_path(id), save_path(id))
          /\ task' = [task EXCEPT ![id].pc = "complete"]
       \/ /\ task[id].body.hi = task[id].body.lo
          /\ task' = [task EXCEPT ![id] = Returned(@, Err("FileSystemError", "rename"))]
          /\ fs' = fs
    /\ UNCHANGED <<catalog, table, caller, net, cancelled, requests, ui>>

\* stream.next(): a chunk is written and counted, or the stream is exhausted
\* and the staging file is renamed
StreamNext(id) ==
    /\ task[id].pc = "stream"
    /\ \/ \* Some(Ok(chunk)), written by write_all
          /\ task[id].body.hi > task[id].body.lo
          /\ LET chunk == NextChunk(id)
             IN /\ fs' = [fs EXCEPT ![temp_path(id)].data = AppendBlock(@, chunk)]
                /\ task' = [task EXCEPT ![id] =
                     [@ EXCEPT !.pc = "update",
                               !.downloaded = @ + (chunk.hi - chunk.lo),
                               !.body.lo = chunk.hi]]
       \/ \* Some(Err(e)): the connection breaks
          /\ task[id].body.hi > task[id].body.lo
          /\ task' = [task EXCEPT ![id] = Returned(@, Err("DownloadError", "stream"))]
          /\ fs' = fs
       \/ \* write_all fails
          /\ task[id].body.hi > task[id].body.lo
          /\ task' = [task EXCEPT ![id] = Returned(@, Err("FileSystemError", "write_all"))]
          /\ fs' = fs
       \/ \* None: rename
          /\ task[id].body.hi = task[id].body.lo
          /\ fs[temp_path(id)].exists
          /\ fs' = Rename(fs, temp_path(id), save_path(id))
          /\ task' = [task EXCEPT ![id].pc = "complete"]
       \/ \* None: rename fails
          /\ task[id].body.hi = task[id].body.lo
          /\ task' = [task EXCEPT ![id] = Returned(@, Err("FileSystemError", "rename"))]
          /\ fs' = fs
    /\ UNCHANGED <<catalog, table, caller, net, cancelled, requests, ui>>

\* a record that counts a chunk before it is written
ChunkProgressAhead(progress, downloaded, total_size) ==
    [progress EXCEPT !.downloaded = downloaded + ChunkLen,
                     !.percentage = Percentage(downloaded + ChunkLen, total_size)]

\* the record after a chunk: downloaded and percentage
ChunkProgress(progress, downloaded, total_size) ==
    [progress EXCEPT !.downloaded = downloaded,
                     !.percentage = Percentage(downloaded, total_size)]

\* a chunk loop that never looks at the status
CancelCheckMissing(status) == FALSE

\* a check that stops the transfer on Paused as well
CancelCheckOrPaused(status) == status \in {"Cancelled", "Paused"}

\* progress.status == DownloadStatus::Cancelled
CancelCheck(status) == status = "Cancelled"

\* a per-chunk update that writes the count into every record of the table
UpdateProgressAll(id) ==
    /\ task[id].pc = "update"
    /\ table' = [o \in DOMAIN table |->
                   ChunkProgress(table[o], task[id].downloaded, task[id].total_size)]
    /\ task' = [task EXCEPT ![id] =
         IF id \in DOMAIN table /\ CancelCheck(table[id].status)
         THEN Returned(@, Err("DownloadError", "Download cancelled"))
         ELSE [@ EXCEPT !.pc = "stream"]]
    /\ UNCHANGED <<catalog, fs, caller, net, cancelled, requests, ui>>

\* a per-chunk update whose lock guard lives on into the next stream.next()
UpdateProgressHoldsLock(id) ==
    /\ task[id].pc = "update"
    /\ IF id \in DOMAIN table
       THEN /\ table' = [table EXCEPT ![id] =
                           ChunkProgress(@, task[id].downloaded, task[id].total_size)]
            /\ task' = [task EXCEPT ![id] =
                 IF CancelCheck(table[id].status)
                 THEN Returned(@, Err("DownloadError", "Download cancelled"))
                 ELSE [@ EXCEPT !.pc = "stream"]]
       ELSE /\ table' = table
            /\ task' = [task EXCEPT ![id].pc = "stream"]
    /\ UNCHANGED <<catalog, fs, caller, net, cancelled, requests, ui>>

\* the per-chunk update of the record and its check for Cancelled; the lock of
\* the table is released at the end of the block
UpdateProgress(id) ==
    /\ task[id].pc = "update"
    /\ IF id \in DOMAIN table
       THEN /\ table' = [table EXCEPT ![id] =
                           ChunkProgress(@, task[id].downloaded, task[id].total_size)]
            /\ task' = [task EXCEPT ![id] =
                 IF CancelCheck(table[id].status)
                 THEN Returned(@, Err("DownloadError", "Download cancelled"))
                 ELSE [@ EXCEPT !.pc = "stream", !.locked = FALSE]]
       ELSE /\ table' = table
            /\ task' = [task EXCEPT ![id].pc = "stream", ![id].locked = FALSE]
    /\ UNCHANGED <<catalog, fs, caller, net, cancelled, requests, ui>>

\* the record after the rename
CompletedProgress(progress) ==
    [progress EXCEPT !.status = "Completed", !.percentage = Hundred]

\* a completion that takes the record of the id out of the table
CompleteRemoves(id) ==
    /\ task[id].pc = "complete"
    /\ table' = [o \in DOMAIN table \ {id} |-> table[o]]
    /\ task' = [task EXCEPT ![id] = Returned(@, Ok)]
    /\ UNCHANGED <<catalog, fs, caller, net, cancelled, requests, ui>>

\* status = Completed and Ok(())
Complete(id) ==
    /\ task[id].pc = "complete"
    /\ table' = IF id \in DOMAIN table
                THEN [table EXCEPT ![id] = CompletedProgress(@)]
                ELSE table
    /\ task' = [task EXCEPT ![id] = Returned(@, Ok)]
    /\ UNCHANGED <<catalog, fs, caller, net, cancelled, requests, ui>>

----------------------------------------------------------------------------
\* pause_download and cancel_download

\* the transfer of id holds an accepted GET response and has not seen its end
Streaming(id) == task[id].pc \in {"open", "stream", "update"}

\* a pause_download that also restarts the byte count of the record
PauseDownloadResets(id) ==
    /\ table' = IF id \in DOMAIN table
                THEN [table EXCEPT ![id].status = "Paused", ![id].downloaded = 0]
                ELSE table
    /\ UNCHANGED <<catalog, fs, task, caller, net, cancelled, requests, ui>>

\* pause_download(game_id): Paused, if the id has a record
PauseDownload(id) ==
    /\ table' = IF id \in DOMAIN table
                THEN [table EXCEPT ![id].status = "Paused"]
                ELSE table
    /\ call' = NoCall
    /\ UNCHANGED <<catalog, fs, task, caller, net, cancelled, requests, polled, checked,
                   noted>>

\* cancel_download(game_id): Cancelled, if the id has a record
CancelRecord(id) ==
    /\ table' = IF id \in DOMAIN table
                THEN [table EXCEPT ![id].status = "Cancelled"]
                ELSE table
    /\ cancelled' = [cancelled EXCEPT ![id] = @ \/ (id \in DOMAIN table /\ Streaming(id))]
    /\ call' = NoCall
    /\ UNCHANGED <<catalog, fs, task, caller, net, requests, polled, checked>>

CancelDownload(id) == CancelRecord(id) /\ noted' = noted

\* download_file of id runs and a chunk check still lies ahead of it
BeforeLastCheck(id) ==
    \/ task[id].pc \in {"head", "insert", "get", "open", "update"}
    \/ task[id].pc = "stream" /\ task[id].body.hi > task[id].body.lo

\* cancel_download(game_id), by a caller that notes the download_file it was
\* meant for: the one that runs after start_download has returned
CancelDownloadNoted(id) ==
    /\ CancelRecord(id)
    /\ noted' = [noted EXCEPT ![id] =
                   IF BeforeLastCheck(id) /\ caller[id].pc # "spawned"
                   THEN <<requests, task[id].idx>>
                   ELSE @]

----------------------------------------------------------------------------
\* get_progress and get_active_downloads

\* download_file(id) has inserted its record and has not returned
InTransfer(id) == task[id].pc \in {"get", "open", "stream", "update", "complete"}

\* downloads.get(&game_id).cloned()
GetProgress(id) ==
    /\ polled' = [op |-> "get_progress", id |-> id,
                  progress |-> IF id \in DOMAIN table THEN Some(table[id]) ELSE None,
                  active |-> {},
                  request |-> requests,
                  file |-> IF InTransfer(id) THEN task[id].idx ELSE 0]
    /\ call' = NoCall
    /\ UNCHANGED <<catalog, fs, table, task, caller, net, cancelled, requests, checked,
                   noted>>

\* downloads.values().cloned().collect(): the records, in no particular order
GetActiveDownloads ==
    /\ polled' = [op |-> "get_active_downloads", id |-> 0, progress |-> None,
                  active |-> { table[id] : id \in DOMAIN table },
                  request |-> requests, file |-> 0]
    /\ call' = NoCall
    /\ UNCHANGED <<catalog, fs, table, task, caller, net, cancelled, requests, checked,
                   noted>>

----------------------------------------------------------------------------
\* the steps of the calls and tasks that start_download has started, and the
\* pause and cancel calls
Running ==
    \/ \E id \in Games : StartDownloadReturn(id)
    \/ \E id \in Games : Poll(id)
    \/ \E id \in Games : Install(id)
    \/ \E id \in Games : TaskEnd(id)
    \/ \E id \in Games : SkipFile(id)
    \/ \E id \in Games : DownloadBegin(id)
    \/ \E id \in Games : HeadProbe(id)
    \/ \E id \in Games : InsertProgress(id)
    \/ \E id \in Games : GetRequest(id)
    \/ \E id \in Games : OpenStaging(id)
    \/ \E id \in Games : StreamNext(id)
    \/ \E id \in Games : UpdateProgress(id)
    \/ \E id \in Games : Complete(id)
    \/ \E id \in Games : PauseDownload(id)
    \/ \E id \in Games : CancelDownload(id)

Next ==
    \/ \E id \in Games, op \in Ops : StartDownloadFails(id, op)
    \/ \E id \in Games, op \in Ops : StartDownload(id, op)
    \/ Running

Spec == Init /\ [][Next]_vars

\* the same program with a user interface that polls get_progress
NextPolled ==
    \/ \E id \in Games, op \in Ops :
          requests < MaxPolledRequests /\ StartDownloadFails(id, op)
    \/ \E id \in Games, op \in Ops :
          requests < MaxPolledRequests /\ StartDownload(id, op)
    \/ Running
    \/ \E id \in Games : GetProgress(id)

InitPolled ==
    /\ catalog \in Catalogs
    /\ fs \in {EmptyDir, KeptFirst(catalog), KeptInstallers(catalog)}
    /\ table = EmptyTable
    /\ task = [id \in Games |-> IdleTask]
    /\ caller = [id \in Games |-> IdleCaller]
    /\ net = [id \in Games |-> {}]
    /\ cancelled = [id \in Games |-> FALSE]
    /\ noted = [id \in Games |-> NoTransfer]
    /\ requests = 0
    /\ polled = NotPolled
    /\ checked = NoCheck
    /\ call = NoCall

SpecPolled == InitPolled /\ [][NextPolled]_vars

\* two games fetched side by side, with the read-only calls of the interface
InitTwo ==
    /\ catalog = TwoGames
    /\ fs = EmptyDir
    /\ table = EmptyTable
    /\ task = [id \in Games |-> IdleTask]
    /\ caller = [id \in Games |-> IdleCaller]
    /\ net = [id \in Games |-> {}]
    /\ cancelled = [id \in Games |-> FALSE]
    /\ noted = [id \in Games |-> NoTransfer]
    /\ requests = 0
    /\ polled = NotPolled
    /\ checked = NoCheck
    /\ call = NoCall

\* each game is asked for once, by start_download, and no game has a second
\* file to skip
NextTwo ==
    \/ \E id \in Games :
          caller[id] = IdleCaller /\ StartDownloadFails(id, "start_download")
    \/ \E id \in Games :
          caller[id] = IdleCaller /\ StartDownload(id, "start_download")
    \/ \E id \in Games : StartDownloadReturn(id)
    \/ \E id \in Games : TaskEnd(id)
    \/ \E id \in Games : DownloadBegin(id)
    \/ \E id \in Games : HeadProbe(id)
    \/ \E id \in Games : InsertProgress(id)
    \/ \E id \in Games : GetRequest(id)
    \/ \E id \in Games : OpenStaging(id)
    \/ \E id \in Games : StreamNext(id)
    \/ \E id \in Games : UpdateProgress(id)
    \/ \E id \in Games : Complete(id)
    \/ \E id \in Games : PauseDownload(id)
    \/ \E id \in Games : CancelDownload(id)

SpecTwo == InitTwo /\ [][NextTwo]_vars

\* the call for game id may be made: no call for it was made, and the tasks of
\* the games after it are over
Turn(id) ==
    /\ caller[id] = IdleCaller
    /\ \A o \in Games : o > id => (caller[o] # IdleCaller /\ task[o].pc = "idle")

\* two games fetched one after the other, each asked for once by
\* start_download, under an interface that pauses, cancels and reads
NextFrame ==
    \/ \E id \in Games : Turn(id) /\ StartDownloadFails(id, "start_download")
    \/ \E id \in Games : Turn(id) /\ StartDownload(id, "start_download")
    \/ \E id \in Games : StartDownloadReturn(id)
    \/ \E id \in Games : TaskEnd(id)
    \/ \E id \in Games : DownloadBegin(id)
    \/ \E id \in Games : HeadProbe(id)
    \/ \E id \in Games : InsertProgress(id)
    \/ \E id \in Games : GetRequest(id)
    \/ \E id \in Games : OpenStaging(id)
    \/ \E id \in Games : StreamNext(id)
    \/ \E id \in Games : UpdateProgress(id)
    \/ \E id \in Games : Complete(id)
    \/ \E id \in Games : PauseDownload(id)
    \/ \E id \in Games : CancelDownload(id)
    \/ \E id \in Games : GetProgress(id)
    \/ GetActiveDownloads

SpecFrame == InitTwo /\ [][NextFrame]_vars

\* the sizes of the staging file an earlier attempt left: none, and the sizes
\* around MINIMUM_RESUME_SIZE
LeftoverSizes ==
    {0, MINIMUM_RESUME_SIZE - 1, MINIMUM_RESUME_SIZE, MINIMUM_RESUME_SIZE + 1}

\* the directory with the first n bytes of the first file of game 1 in its
\* staging file
Leftover(c, n) ==
    [EmptyDir EXCEPT ![with_extension(c[1][1], "part")] =
        [exists |-> TRUE,
         data |-> AppendBlock(<<>>, [src |-> c[1][1], lo |-> 0, hi |-> n])]]

\* download_file(url, save_path, game_id, resume) called for file i alone, with
\* the resume flag of the caller's choice
CallDownloadFile(id, i, resume) ==
    /\ task[id].pc = "idle"
    /\ requests < MaxRequests
    /\ requests' = requests + 1
    /\ task' = [task EXCEPT ![id] =
         [IdleTask EXCEPT !.pc = "loop", !.idx = i,
                          !.needs_download = [j \in 1..Len(catalog[id]) |-> j = i],
                          !.resume = resume]]
    /\ net' = [net EXCEPT ![id] = {}]
    /\ UNCHANGED <<catalog, fs, table, caller, cancelled, ui>>

InitResume ==
    /\ catalog \in Catalogs
    /\ fs \in {EmptyDir} \cup { Leftover(catalog, n) : n \in LeftoverSizes }
    /\ table = EmptyTable
    /\ task = [id \in Games |-> IdleTask]
    /\ caller = [id \in Games |-> IdleCaller]
    /\ net = [id \in Games |-> {}]
    /\ cancelled = [id \in Games |-> FALSE]
    /\ noted = [id \in Games |-> NoTransfer]
    /\ requests = 0
    /\ polled = NotPolled
    /\ checked = NoCheck
    /\ call = NoCall

\* download_file called with and without resume, over what earlier attempts
\* left in the staging file
NextResume ==
    \/ \E id \in Games, resume \in BOOLEAN :
          \E i \in 1..Len(catalog[id]) : CallDownloadFile(id, i, resume)
    \/ \E id \in Games : TaskEnd(id)
    \/ \E id \in Games : SkipFile(id)
    \/ \E id \in Games : DownloadBegin(id)
    \/ \E id \in Games : HeadProbe(id)
    \/ \E id \in Games : InsertProgress(id)
    \/ \E id \in Games : GetRequest(id)
    \/ \E id \in Games : OpenStaging(id)
    \/ \E id \in Games : StreamNext(id)
    \/ \E id \in Games : UpdateProgress(id)
    \/ \E id \in Games : Complete(id)
    \/ \E id \in Games : PauseDownload(id)
    \/ \E id \in Games : CancelDownload(id)

SpecResume == InitResume /\ [][NextResume]_vars

InitStem ==
    /\ catalog = SameStem
    /\ fs \in {EmptyDir, KeptFirst(catalog), KeptInstallers(catalog)}
    /\ table = EmptyTable
    /\ task = [id \in Games |-> IdleTask]
    /\ caller = [id \in Games |-> IdleCaller]
    /\ net = [id \in Games |-> {}]
    /\ cancelled = [id \in Games |-> FALSE]
    /\ noted = [id \in Games |-> NoTransfer]
    /\ requests = 0
    /\ polled = NotPolled
    /\ checked = NoCheck
    /\ call = NoCall

\* the same program on a game whose files share their stem
SpecStem == InitStem /\ [][Next]_vars

----------------------------------------------------------------------------
\* The two locks: the Mutex of APP_STATE.download_manager and the Mutex of
\* active_downloads.  In the specifications above a lock is taken and released
\* within the step that uses it; here taking the lock is a step of its own.

Writers == {"pause_download", "cancel_download"}

Readers == {"get_progress", "get_active_downloads"}

\* nobody holds the lock of the table
TableFree == call.pc # "table" /\ \A id \in Games : ~task[id].locked

\* nobody holds the lock of the DownloadManager: pause_download and
\* cancel_download of simple.rs keep it until they return
ManagerFree == ~(call.pc = "manager" \/ (call.pc = "table" /\ call.op \in Writers))

\* self.active_downloads.lock().await of download_file returns
LockTable(id) ==
    /\ task[id].pc \in {"insert", "update", "complete"}
    /\ ~task[id].locked
    /\ TableFree
    /\ task' = [task EXCEPT ![id].locked = TRUE]
    /\ UNCHANGED <<catalog, fs, table, caller, net, cancelled, requests, ui>>

\* an API call starts and asks for the lock of the DownloadManager
CallBegin(op, id) ==
    /\ call = NoCall
    /\ call' = [pc |-> "asked", op |-> op, id |-> id]
    /\ UNCHANGED <<catalog, fs, table, task, caller, net, cancelled, requests, polled,
                   checked, noted>>

\* APP_STATE.download_manager.lock().await of the call returns
CallLockManager ==
    /\ call.pc = "asked"
    /\ ManagerFree
    /\ call' = [call EXCEPT !.pc = "manager"]
    /\ UNCHANGED <<catalog, fs, table, task, caller, net, cancelled, requests, polled,
                   checked, noted>>

\* drop(download_manager) of get_download_progress
CallDropManager ==
    /\ call.pc = "manager"
    /\ call.op \in Readers
    /\ call' = [call EXCEPT !.pc = "unlocked"]
    /\ UNCHANGED <<catalog, fs, table, task, caller, net, cancelled, requests, polled,
                   checked, noted>>

\* the call awaits the lock of the table
AwaitsTable ==
    \/ call.pc = "manager" /\ call.op \in Writers
    \/ call.pc = "unlocked"

\* active_downloads.lock().await of a call that waits for the lock of the
\* DownloadManager as well
CallLockTableAfterManager ==
    /\ AwaitsTable
    /\ TableFree
    /\ ManagerFree
    /\ call' = [call EXCEPT !.pc = "table"]
    /\ UNCHANGED <<catalog, fs, table, task, caller, net, cancelled, requests, polled,
                   checked, noted>>

\* active_downloads.lock().await of the call returns
CallLockTable ==
    /\ AwaitsTable
    /\ TableFree
    /\ call' = [call EXCEPT !.pc = "table"]
    /\ UNCHANGED <<catalog, fs, table, task, caller, net, cancelled, requests, polled,
                   checked, noted>>

\* downloads.get(&game_id) of get_download_progress or downloads.values() of
\* get_active_downloads returns and the call ends, which releases the lock of
\* the table; the value read is followed in SpecPolled and SpecFrame
CallReadTable ==
    /\ call.pc = "table"
    /\ call.op \in Readers
    /\ call' = NoCall
    /\ UNCHANGED <<catalog, fs, table, task, caller, net, cancelled, requests, polled,
                   checked, noted>>

\* one game, asked for once, whose task and whose pause, cancel,
\* get_download_progress and get_active_downloads calls take the locks step
\* by step
NextLocks ==
    \/ \E id \in Games :
          caller[id] = IdleCaller /\ StartDownloadFails(id, "start_download")
    \/ \E id \in Games :
          caller[id] = IdleCaller /\ StartDownload(id, "start_download")
    \/ \E id \in Games : StartDownloadReturn(id)
    \/ \E id \in Games : TaskEnd(id)
    \/ \E id \in Games : SkipFile(id)
    \/ \E id \in Games : ManagerFree /\ DownloadBegin(id)
    \/ \E id \in Games : HeadProbe(id)
    \/ \E id \in Games : LockTable(id)
    \/ \E id \in Games : task[id].locked /\ InsertProgress(id)
    \/ \E id \in Games : GetRequest(id)
    \/ \E id \in Games : OpenStaging(id)
    \/ \E id \in Games : StreamNext(id)
    \/ \E id \in Games : task[id].locked /\ UpdateProgress(id)
    \/ \E id \in Games : task[id].locked /\ Complete(id)
    \/ \E id \in Games, op \in Writers \cup Readers : CallBegin(op, id)
    \/ CallLockManager
    \/ CallDropManager
    \/ CallLockTable
    \/ call.pc = "table" /\ call.op = "pause_download" /\ PauseDownload(call.id)
    \/ call.pc = "table" /\ call.op = "cancel_download" /\ CancelDownload(call.id)
    \/ CallReadTable

SpecLocks == InitPolled /\ [][NextLocks]_vars

\* a step of a task or of a call that holds a lock
HolderStep ==
    \/ \E id \in Games :
          task[id].locked /\ (InsertProgress(id) \/ UpdateProgress(id) \/ Complete(id))
    \/ CallDropManager
    \/ call.pc = "table" /\ call.op = "pause_download" /\ PauseDownload(call.id)
    \/ call.pc = "table" /\ call.op = "cancel_download" /\ CancelDownload(call.id)
    \/ CallReadTable

\* whoever holds a lock keeps running, and the mutexes of tokio serve their
\* waiters in the order of their requests: a request that can be granted again
\* and again is granted.  Nothing is assumed of the steps that wait for the
\* network or the file system
SpecLocksFair ==
    /\ SpecLocks
    /\ WF_vars(HolderStep)
    /\ SF_vars(CallLockManager)
    /\ SF_vars(CallLockTable)
    /\ SF_vars(\E id \in Games : LockTable(id))
    /\ SF_vars(\E id \in Games : ManagerFree /\ DownloadBegin(id))

\* Spec with callers of cancel_download that note what they cancelled
NextCancel ==
    \/ \E id \in Games, op \in Ops : StartDownloadFails(id, op)
    \/ \E id \in Games, op \in Ops : StartDownload(id, op)
    \/ \E id \in Games : StartDownloadReturn(id)
    \/ \E id \in Games : Poll(id)
    \/ \E id \in Games : Install(id)
    \/ \E id \in Games : TaskEnd(id)
    \/ \E id \in Games : SkipFile(id)
    \/ \E id \in Games : DownloadBegin(id)
    \/ \E id \in Games : HeadProbe(id)
    \/ \E id \in Games : InsertProgress(id)
    \/ \E id \in Games : GetRequest(id)
    \/ \E id \in Games : OpenStaging(id)
    \/ \E id \in Games : StreamNext(id)
    \/ \E id \in Games : UpdateProgress(id)
    \/ \E id \in Games : Complete(id)
    \/ \E id \in Games : PauseDownload(id)
    \/ \E id \in Games : CancelDownloadNoted(id)

SpecCancel == Init /\ [][NextCancel]_vars

----------------------------------------------------------------------------
\* Retries against a server that honours Range, with no failure of the network
\* or of the file system

\* the sizes of the staging file the retries find: nothing, the sizes around
\* MINIMUM_RESUME_SIZE, and the whole file
RetrySizes(c) == LeftoverSizes \cup {ServerSize(c[1][1])}

\* this step of download_file meets no network or file system failure, its
\* HEAD is answered with a content-length, and its GET is answered 200 without
\* Range, 206 with a Range that can be satisfied and 416 with one that cannot
WellBehaved(id) ==
    /\ task'[id].ret.kind \notin {"NetworkError", "FileSystemError"}
    /\ task'[id].ret # Err("DownloadError", "stream")
    /\ (task[id].pc = "head" /\ task'[id].pc = "insert") =>
          task'[id].total_size = ServerSize(save_path(id))
    /\ (task[id].pc = "get" /\ task'[id].pc = "open") =>
          task'[id].status = IF task[id].downloaded > 0 THEN 206 ELSE 200
    /\ (task[id].pc = "get" /\ task'[id].pc = "loop") =>
          task[id].downloaded >= ServerSize(save_path(id))

\* the caller calls download_file(url, save_path, game_id, true) again for a
\* file that is not at its final path
RetryDownloadFile(id, i) ==
    /\ task[id].pc = "idle"
    /\ ~fs[catalog[id][i]].exists
    /\ task' = [task EXCEPT ![id] =
         [IdleTask EXCEPT !.pc = "loop", !.idx = i,
                          !.needs_download = [j \in 1..Len(catalog[id]) |-> j = i],
                          !.resume = TRUE]]
    /\ net' = [net EXCEPT ![id] = {}]
    /\ UNCHANGED <<catalog, fs, table, caller, cancelled, requests, ui>>

InitRetry ==
    /\ catalog \in Catalogs
    /\ fs \in {EmptyDir} \cup { Leftover(catalog, n) : n \in RetrySizes(catalog) }
    /\ table = EmptyTable
    /\ task = [id \in Games |-> IdleTask]
    /\ caller = [id \in Games |-> IdleCaller]
    /\ net = [id \in Games |-> {}]
    /\ cancelled = [id \in Games |-> FALSE]
    /\ noted = [id \in Games |-> NoTransfer]
    /\ requests = 0
    /\ polled = NotPolled
    /\ checked = NoCheck
    /\ call = NoCall

NextRetry ==
    \/ \E id \in Games : \E i \in 1..Len(catalog[id]) : RetryDownloadFile(id, i)
    \/ \E id \in Games : TaskEnd(id)
    \/ \E id \in Games : SkipFile(id)
    \/ \E id \in Games : DownloadBegin(id) /\ WellBehaved(id)
    \/ \E id \in Games : HeadProbe(id) /\ WellBehaved(id)
    \/ \E id \in Games : InsertProgress(id)
    \/ \E id \in Games : GetRequest(id) /\ WellBehaved(id)
    \/ \E id \in Games : OpenStaging(id) /\ WellBehaved(id)
    \/ \E id \in Games : StreamNext(id) /\ WellBehaved(id)
    \/ \E id \in Games : UpdateProgress(id)
    \/ \E id \in Games : Complete(id)
    \/ \E id \in Games : PauseDownload(id)

\* the runtime keeps running the task and the caller keeps retrying: a pause
\* changes the state once a transfer at most, so that steps taken for ever are
\* steps of the task
SpecRetry ==
    InitRetry /\ [][NextRetry]_vars /\ WF_vars(NextRetry)

----------------------------------------------------------------------------
\* calculate_md5 and verify_checksum

\* A string is a sequence of one-character strings.  The files handed to
\* verify_checksum are kept by their bytes: three readable files and a path
\* that cannot be read.
ChecksumFiles ==
    (Path("empty", "bin") :> [readable |-> TRUE, bytes |-> <<>>]) @@
    (Path("a", "bin") :> [readable |-> TRUE, bytes |-> <<97>>]) @@
    (Path("abc", "bin") :> [readable |-> TRUE, bytes |-> <<97, 98, 99>>]) @@
    (Path("missing", "bin") :> [readable |-> FALSE, bytes |-> <<>>])

\* md5::compute: the 16 bytes of the MD5 digest
Md5Compute(bytes) ==
    CASE bytes = <<>> ->
           <<212, 29, 140, 217, 143, 0, 178, 4, 233, 128, 9, 152, 236, 248, 66, 126>>
      [] bytes = <<97>> ->
           <<12, 193, 117, 185, 192, 241, 182, 168, 49, 195, 153, 226, 105, 119, 38, 97>>
      [] bytes = <<97, 98, 99>> ->
           <<144, 1, 80, 152, 60, 210, 79, 176, 214, 150, 63, 125, 40, 225, 127, 114>>

HexDigits ==
    <<"0", "1", "2", "3", "4", "5", "6", "7", "8", "9", "a", "b", "c", "d", "e", "f">>

\* format!("{:x}", digest): two lower-case hexadecimal digits per byte
LowerHex(digest) ==
    [i \in 1..(2 * Len(digest)) |->
        LET byte == digest[(i + 1) \div 2]
        IN HexDigits[(IF i % 2 = 1 THEN byte \div 16 ELSE byte % 16) + 1]]

UpperCase ==
    <<"A", "B", "C", "D", "E", "F", "G", "H", "I", "J", "K", "L", "M",
      "N", "O", "P", "Q", "R", "S", "T", "U", "V", "W", "X", "Y", "Z">>

LowerCase ==
    <<"a", "b", "c", "d", "e", "f", "g", "h", "i", "j", "k", "l", "m",
      "n", "o", "p", "q", "r", "s", "t", "u", "v", "w", "x", "y", "z">>

\* a comparison that folds nothing
KeepCase(str) == str

\* str::to_lowercase, on the ASCII letters
to_lowercase(str) ==
    [i \in 1..Len(str) |->
        IF \E k \in 1..Len(UpperCase) : UpperCase[k] = str[i]
        THEN LowerCase[CHOOSE k \in 1..Len(UpperCase) : UpperCase[k] = str[i]]
        ELSE str[i]]

\* calculate_md5(path): fs::read(path)?, md5::compute, format!("{:x}")
calculate_md5(path) ==
    IF ChecksumFiles[path].readable
    THEN [kind |-> "Ok", value |-> LowerHex(Md5Compute(ChecksumFiles[path].bytes))]
    ELSE [kind |-> "FileSystemError", value |-> <<>>]

\* verify_checksum(path, expected_md5)
verify_checksum(path, expected_md5) ==
    LET calculated == calculate_md5(path)
    IN IF calculated.kind # "Ok"
       THEN [kind |-> calculated.kind, value |-> FALSE]
       ELSE [kind |-> "Ok",
             value |-> to_lowercase(calculated.value) = to_lowercase(expected_md5)]

\* the call of verify_checksum returns
VerifyChecksum ==
    /\ checked.pc = "call"
    /\ checked' = [checked EXCEPT !.pc = "done",
                                  !.ret = verify_checksum(checked.path,
                                                          checked.expected_md5)]
    /\ UNCHANGED <<catalog, fs, table, task, caller, net, cancelled, requests, polled,
                   call, noted>>

\* the upper-case form of a lower-case hexadecimal string
UpperHex(str) ==
    [i \in 1..Len(str) |->
        IF \E k \in 1..Len(LowerCase) : LowerCase[k] = str[i]
        THEN UpperCase[CHOOSE k \in 1..Len(LowerCase) : LowerCase[k] = str[i]]
        ELSE str[i]]

\* the digests a caller may expect: of each readable file in lower case, in
\* upper case and in mixed case, and strings that are no digest of any of them
ExpectedDigests ==
    UNION { LET hex == LowerHex(Md5Compute(ChecksumFiles[p].bytes))
                up == UpperHex(hex)
            IN { hex, up,
                 [i \in 1..Len(hex) |-> IF i % 2 = 1 THEN up[i] ELSE hex[i]],
                 SubSeq(hex, 1, Len(hex) - 1),
                 Append(up, " "),
                 [hex EXCEPT ![1] = "G"] }
            : p \in { q \in DOMAIN ChecksumFiles : ChecksumFiles[q].readable } }
    \cup { <<>> }

\* the table when verify_checksum is called: empty, or holding the record of a
\* transfer that completed
CompletedTable(c) ==
    (1 :> CompletedProgress([InitialProgress(1, c[1][1], 0, ServerSize(c[1][1]))
                               EXCEPT !.downloaded = ServerSize(c[1][1])])) @@ EmptyTable

InitChecksum ==
    /\ catalog \in Catalogs
    /\ \/ fs = EmptyDir /\ table = EmptyTable
       \/ fs = KeptFirst(catalog) /\ table = CompletedTable(catalog)
    /\ task = [id \in Games |-> IdleTask]
    /\ caller = [id \in Games |-> IdleCaller]
    /\ net = [id \in Games |-> {}]
    /\ cancelled = [id \in Games |-> FALSE]
    /\ noted = [id \in Games |-> NoTransfer]
    /\ requests = 0
    /\ polled = NotPolled
    /\ checked \in { [NoCheck EXCEPT !.pc = "call", !.path = p, !.expected_md5 = e] :
                       p \in DOMAIN ChecksumFiles, e \in ExpectedDigests }
    /\ call = NoCall

NextChecksum == VerifyChecksum

SpecChecksum == InitChecksum /\ [][NextChecksum]_vars

----------------------------------------------------------------------------
\* Properties

StagingOf(p) == with_extension(p, "part")

AllPresent(id) == \A i \in 1..Len(catalog[id]) : fs[catalog[id][i]].exists

C2_CompletedDownloadedIsTotal ==
    \A id \in DOMAIN table :
        (table[id].status = "Completed" /\ table[id].total > 0) =>
            table[id].downloaded = table[id].total

\* C3: once cancel_download has set Cancelled while the transfer is streaming,
\* the transfer does not rename its staging file and the record does not
\* become Completed.
C3_CancelledNeverCompletes ==
    \A id \in Games :
        cancelled[id] =>
            /\ task[id].pc # "complete"
            /\ id \in DOMAIN table => table[id].status # "Completed"

\* the update step of download_file in which it reads Cancelled
ObservesCancel(id) ==
    /\ task[id].pc = "update"
    /\ task'[id] # task[id]
    /\ id \in DOMAIN table
    /\ table[id].status = "Cancelled"

TransferFailures ==
    { Err("NetworkError", "HEAD send"), Err("NetworkError", "GET send"),
      Err("DownloadError", "HTTP error"), Err("DownloadError", "stream"),
      Err("FileSystemError", "open"), Err("FileSystemError", "write_all"),
      Err("FileSystemError", "rename") }

\* C5: after download_file has failed with a network or filesystem error, the
\* record of its id reads Failed and holds the failure message.
C5_FailureIsRecorded ==
    \A id \in Games :
        task[id].ret \in TransferFailures =>
            /\ id \in DOMAIN table
            /\ table[id].status = "Failed"
            /\ table[id].error # "None"

\* C6: when the background task of a request is over, the record it left is
\* in a terminal status, so the polling loop of download_and_install stops.
C6_PollingStops ==
    \A id \in Games :
        (caller[id].pc = "poll" /\ task[id].pc = "idle" /\ id \in DOMAIN table) =>
            table[id].status \in Terminal

\* a step in which start_download(id) finds every file at its final path
ReturnsAllDownloaded(id) ==
    /\ caller[id].pc = "idle"
    /\ caller'[id] # caller[id]
    /\ caller'[id].ret.kind # "StartError"
    /\ AllPresent(id)

\* C7: when every file of the request exists, start_download returns the
\* first file's path in that step, spawns no task, issues no request and
\* leaves the table and the files as they were, at every call.
C7_AllDownloadedNoFetch ==
    [][\A id \in Games :
          ReturnsAllDownloaded(id) =>
              /\ task' = task /\ task[id].pc = "idle"
              /\ net' = net
              /\ table' = table
              /\ fs' = fs
              /\ IF caller'[id].op = "start_download"
                 THEN /\ caller'[id].pc = "idle"
                      /\ caller'[id].ret = CallRet("Ok", "", catalog[id][1])
                 ELSE /\ caller'[id].pc = "poll"
                      /\ caller'[id].installer_path = catalog[id][1]]_vars

C7_Witness ==
    \E id \in Games :
        /\ AllPresent(id)
        /\ requests = MaxRequests
        /\ caller[id].pc = "idle"
        /\ caller[id].ret = CallRet("Ok", "", catalog[id][1])
        /\ net[id] = {}
        /\ table = EmptyTable

\* C8: after the spawn, the return of start_download with the first file's
\* path is enabled in every state of the spawned task: it does not wait for
\* the HEAD, the insert, a chunk or the end of the transfer.
C8_ReturnNotAwaiting ==
    \A id \in Games :
        caller[id].pc = "spawned" =>
            /\ ENABLED StartDownloadReturn(id)
            /\ caller[id].installer_path = catalog[id][1]

C8_Witness ==
    \E id \in Games :
        /\ caller[id].pc = "spawned"
        /\ task[id].pc = "idle"
        /\ AllPresent(id)
        /\ id \in DOMAIN table /\ table[id].status = "Completed"

\* the step of download_and_install that leaves the polling loop for install_game
GoesToInstall(id) == caller[id].pc # "install" /\ caller'[id].pc = "install"

Resumed206(id) ==
    /\ task[id].pc \in {"open", "stream", "update", "complete"}
    /\ task[id].range >= MINIMUM_RESUME_SIZE
    /\ task[id].status = 206

\* the file the transfer of id writes: the staging file, or after the rename
\* the final file
TransferFile(id) ==
    fs[IF task[id].pc = "complete" THEN save_path(id) ELSE temp_path(id)]

\* the bytes of old are the first bytes of new
IsBytePrefix(old, new) ==
    \/ old = <<>>
    \/ /\ Len(new) >= Len(old)
       /\ \A i \in 1..(Len(old) - 1) : new[i] = old[i]
       /\ new[Len(old)].src = old[Len(old)].src
       /\ new[Len(old)].lo = old[Len(old)].lo
       /\ new[Len(old)].hi >= old[Len(old)].hi

\* the last bytes of data are the bytes lo..hi-1 of the body of p
EndsWithBody(data, p, lo, hi) ==
    \/ lo = hi
    \/ /\ data # <<>>
       /\ data[Len(data)].src = p
       /\ data[Len(data)].hi = hi
       /\ data[Len(data)].lo <= lo

\* C10, in states: the offset of a transfer is the size s of a staging file of
\* at least 20 MiB; resumed at s and answered 206 from s on, the file holds s
\* bytes followed by the bytes received, downloaded counts both, and at the
\* end downloaded is the total the HEAD probe reported.
C10_ResumeState ==
    \A id \in Games :
        LET t == task[id]
            f == TransferFile(id)
        IN /\ (/\ t.pc \in {"head", "insert", "get"}
               /\ fs[temp_path(id)].exists
               /\ FileLen(fs[temp_path(id)]) >= MINIMUM_RESUME_SIZE)
                  => t.downloaded = FileLen(fs[temp_path(id)])
           /\ Resumed206(id) =>
                /\ f.exists
                /\ t.downloaded = t.range + (t.body.lo - t.range)
                /\ FileLen(f) = t.downloaded
                /\ EndsWithBody(f.data, save_path(id), t.range, t.body.lo)
                /\ (t.pc = "complete" /\ t.total_size > 0)
                      => t.downloaded = t.total_size

\* C10, in steps: no step of such a transfer drops or changes a byte the file
\* already holds.
C10_ResumeKeeps ==
    \A id \in Games :
        (Resumed206(id) /\ Resumed206(id)')
            => IsBytePrefix(TransferFile(id).data, TransferFile(id)'.data)

\* C10: a transfer that resumes from a staging file of s >= 20 MiB and gets 206
\* with the bytes from s on sent Range bytes=s-, keeps the s bytes, appends
\* what it receives after them, and ends with downloaded equal to the total
\* the HEAD probe reported.
C10_ResumeCorrect == []C10_ResumeState /\ [][C10_ResumeKeeps]_vars

C10_Witness ==
    \E id \in Games :
        /\ Resumed206(id)
        /\ task[id].pc = "complete"
        /\ task[id].range = MINIMUM_RESUME_SIZE
        /\ task[id].total_size > 0
        /\ task[id].downloaded = task[id].total_size
        /\ FileLen(fs[save_path(id)]) = task[id].total_size

\* C12: a record whose total is 0 (the HEAD response had no usable
\* content-length) keeps percentage 0.0 in every state, also once Completed.
C12_UnknownTotalStaysZero ==
    \A id \in DOMAIN table :
        table[id].total = 0 => table[id].percentage = Percentage(0, 0)

\* bytes the running download_file call of id has written to its staging file
Written(id) ==
    IF task[id].pc \in {"stream", "update"}
    THEN task[id].downloaded - task[id].range
    ELSE 0

\* a step in which download_file(id) returns an error
ReturnsError(id) ==
    /\ task[id].pc \notin {"idle", "loop"}
    /\ task'[id].pc = "loop"
    /\ task'[id].ret.kind \notin {"Ok", "none"}

\* C13, the error returns: a return with an error after bytes were written
\* leaves the files alone, the staging file exists and holds exactly the bytes
\* counted so far, ending with those just received, and nothing is at the
\* final path.
C13_ErrorKeepsStaging ==
    \A id \in Games :
        (ReturnsError(id) /\ Written(id) > 0) =>
            /\ fs' = fs
            /\ fs[temp_path(id)].exists
            /\ FileLen(fs[temp_path(id)]) = task[id].downloaded
            /\ EndsWithBody(fs[temp_path(id)].data, save_path(id),
                            task[id].body.lo - Written(id), task[id].body.lo)
            /\ ~fs[save_path(id)].exists

\* C13, the final path: a file appears at a final path only in the step that
\* finds the body stream exhausted and renames the staging file.
C13_FinalOnlyByRename ==
    \A p \in FinalPaths :
        (~fs[p].exists /\ fs'[p].exists) =>
            \E id \in Games :
                /\ task[id].pc = "stream"
                /\ task[id].body.lo = task[id].body.hi
                /\ save_path(id) = p
                /\ task'[id].pc = "complete"
                /\ fs'[p] = fs[temp_path(id)]
                /\ ~fs'[temp_path(id)].exists

C14_HeadFailureContinues ==
    \A id \in Games : task[id].ret # Err("NetworkError", "HEAD send")

\* the step of download_file(id) that inserts its record
InsertStep(id) == task[id].pc = "insert" /\ task'[id].pc = "get"

\* C15, in states: every record is filed under its own game id, one per id.
C15_OneRecordPerId ==
    /\ DOMAIN table \subseteq Games
    /\ \A id \in DOMAIN table : table[id].game_id = id

\* C15, in steps: the insert of download_file(id) puts a fresh record in the
\* place of whatever the id had and leaves the other ids' records alone.
C15_InsertReplaces ==
    \A id \in Games :
        InsertStep(id) =>
            LET staging == fs[temp_path(id)]
                offset == IF staging.exists /\ FileLen(staging) >= MINIMUM_RESUME_SIZE
                          THEN FileLen(staging) ELSE 0
            IN /\ DOMAIN table' = DOMAIN table \cup {id}
               /\ \A o \in DOMAIN table \ {id} : table'[o] = table[o]
               /\ task[id].total_size \in {0, ServerSize(save_path(id))}
               /\ table'[id] = [game_id |-> id, file_name |-> save_path(id),
                                downloaded |-> offset, total |-> task[id].total_size,
                                percentage |-> Percentage(offset, task[id].total_size),
                                status |-> "Downloading", error |-> "None"]

\* C15: the table holds at most one record per id, and each download_file(id)
\* that reaches its insert replaces the record of the id, whatever it held, by
\* one with status Downloading, no error, downloaded the resumed offset and
\* total the probed size.
C15_RecordReplaced == []C15_OneRecordPerId /\ [][C15_InsertReplaces]_vars

C15_Witness ==
    \E id \in DOMAIN table :
        /\ task[id].pc = "get"
        /\ task[id].idx = 2
        /\ <<catalog[id][1], "GET">> \in net[id]
        /\ fs[catalog[id][1]].exists
        /\ table[id].file_name = catalog[id][2]
        /\ table[id].status = "Downloading"
        /\ table[id].downloaded = 0

StatusRank(status) ==
    CASE status = "Pending" -> 0
      [] status = "Downloading" -> 1
      [] status = "Paused" -> 2
      [] OTHER -> 3

\* a get_progress(id) call whose caller holds an earlier reading of the id
PollsAgain(id, old, new) ==
    /\ new # old
    /\ old.op = "get_progress" /\ old.id = id /\ old.progress # None
    /\ new.op = "get_progress" /\ new.id = id /\ new.progress # None

\* C16: two readings of get_progress(id) taken while transfers of one
\* start_download request run, both with status Downloading, never show
\* downloaded going down, whichever files of the request they fall in.
C16_DownloadedNeverDecreases ==
    [][\A id \in Games :
          LET old == polled
              new == polled'
          IN (/\ PollsAgain(id, old, new)
              /\ old.request = new.request
              /\ old.file > 0 /\ new.file > 0
              /\ old.progress[1].status = "Downloading"
              /\ new.progress[1].status = "Downloading")
                => new.progress[1].downloaded >= old.progress[1].downloaded]_vars

\* C17: while download_file(id) runs, the status of its record is never
\* changed once it is Completed, Failed or Cancelled, and it goes backward only
\* from Paused to Downloading.
C17_StatusMovesForward ==
    [][\A id \in DOMAIN table :
          (InTransfer(id) /\ InTransfer(id)') =>
              /\ table[id].status \in Terminal => table'[id].status = table[id].status
              /\ \/ StatusRank(table'[id].status) >= StatusRank(table[id].status)
                 \/ table[id].status = "Paused" /\ table'[id].status = "Downloading"]_vars

\* C20: once cancel_download has set Cancelled during streaming, the next
\* per-chunk update of download_file returns the cancellation error, so at most
\* one chunk is appended after the cancel.
C20_OneChunkAfterCancel ==
    [][\A id \in Games :
          (cancelled[id] /\ task[id].pc = "update" /\ task'[id] # task[id]) =>
              /\ task'[id].pc = "loop"
              /\ task'[id].ret = Err("DownloadError", "Download cancelled")]_vars


\* a step of pause_download or cancel_download: the table changes and no
\* download_file made the step
PauseOrCancelStep == table' # table /\ task' = task

\* C18, pause and cancel: such a step changes the status of one record the
\* table already holds to Paused or Cancelled; every other field of it, every
\* other record, the set of ids and the files are as before.
C18_PauseCancelFrame ==
    PauseOrCancelStep =>
        /\ DOMAIN table' = DOMAIN table
        /\ fs' = fs
        /\ \E id \in DOMAIN table :
              /\ table'[id].status \in {"Paused", "Cancelled"}
              /\ table'[id] = [table[id] EXCEPT !.status = table'[id].status]
              /\ \A o \in DOMAIN table \ {id} : table'[o] = table[o]

\* C18, the reads: a step that hands a result to get_progress or
\* get_active_downloads leaves the table, the files and the tasks as they were;
\* the result is the record of the id (or None), or the records of the table.
C18_ReadsChangeNothing ==
    polled' # polled =>
        LET new == polled'
        IN /\ UNCHANGED <<fs, table, task, caller, net, cancelled, requests>>
           /\ new.op = "get_progress" =>
                 new.progress = IF new.id \in DOMAIN table THEN <<table[new.id]>> ELSE <<>>
           /\ new.op = "get_active_downloads" =>
                 new.active = { table[id] : id \in DOMAIN table }

\* C18: pause_download(id) and cancel_download(id) change only the status of
\* the record id has, create no record when it has none and touch no file;
\* get_progress and get_active_downloads change nothing.
C18_OnlyStatusChanges == [][C18_PauseCancelFrame /\ C18_ReadsChangeNothing]_vars

C18_Witness ==
    /\ DOMAIN table = {1, 2}
    /\ table[2].status = "Paused"
    /\ table[2].downloaded = ServerSize(catalog[2][1])
    /\ fs[catalog[2][1]].exists
    /\ InTransfer(1)
    /\ table[1].status = "Cancelled"
    /\ table[1].downloaded > 0
    /\ polled.op = "get_active_downloads"
    /\ polled.active = {table[1], table[2]}

\* C11, in states: the record of an id names the id and its file; while its
\* download_file runs the record exists and counts the bytes of that
\* transfer's own file (one chunk behind between the write and the update);
\* after download_file(id) returned Ok the count is the size of the id's file.
C11_OwnRecord ==
    \A id \in Games :
        /\ id \in DOMAIN table =>
              /\ table[id].game_id = id
              /\ table[id].file_name = catalog[id][1]
        /\ InTransfer(id) =>
              /\ id \in DOMAIN table
              /\ table[id].total = task[id].total_size
              /\ FileLen(TransferFile(id)) = task[id].downloaded
              /\ IF task[id].pc = "update"
                 THEN /\ table[id].downloaded < task[id].downloaded
                      /\ task[id].downloaded - table[id].downloaded <= ChunkLen
                 ELSE table[id].downloaded = task[id].downloaded
        /\ (task[id].pc \in {"loop", "idle"} /\ task[id].ret = Ok) =>
              /\ id \in DOMAIN table
              /\ table[id].downloaded = ServerSize(catalog[id][1])
              /\ table[id].downloaded = FileLen(fs[catalog[id][1]])

\* C11, in steps: a step of the transfer of one id leaves the record of every
\* other id as it was.
C11_OwnSteps ==
    \A id \in Games :
        task'[id] # task[id] =>
            \A o \in DOMAIN table \ {id} : o \in DOMAIN table' /\ table'[o] = table[o]

\* C11: when transfers with distinct ids and distinct paths run side by side,
\* in any interleaving, each id ends with its own record, whose downloaded
\* counts the bytes of its own transfer only; no transfer writes the record of
\* another id.
C11_NoCrossContamination == []C11_OwnRecord /\ [][C11_OwnSteps]_vars

C11_Witness ==
    /\ task[1].pc = "complete"
    /\ task[2].pc = "update"
    /\ table[1].downloaded = ServerSize(catalog[1][1])
    /\ table[2].downloaded = ChunkLen
    /\ task[2].downloaded = 2 * ChunkLen
    /\ table[1].file_name # table[2].file_name

\* the same letter, in either case, or the same character
SameLetter(x, y) ==
    \/ x = y
    \/ \E k \in 1..Len(UpperCase) : {x, y} = {UpperCase[k], LowerCase[k]}

EqualIgnoringCase(a, b) ==
    /\ Len(a) = Len(b)
    /\ \A i \in 1..Len(a) : SameLetter(a[i], b[i])

\* C19, the result: an error when the file cannot be read; else true exactly
\* when expected is the hexadecimal MD5 digest of the file up to letter case.
C19_Result ==
    checked.pc = "done" =>
        LET file == ChecksumFiles[checked.path]
        IN IF ~file.readable
           THEN checked.ret = [kind |-> "FileSystemError", value |-> FALSE]
           ELSE /\ checked.ret.kind = "Ok"
                /\ checked.ret.value <=>
                      EqualIgnoringCase(LowerHex(Md5Compute(file.bytes)),
                                        checked.expected_md5)

\* C19, the frame: the call leaves the table as it was.
C19_TableUntouched == checked' # checked => table' = table

\* C19: verify_checksum(path, expected) returns true exactly when the MD5
\* digest of the file equals expected without regard to letter case, an error
\* when the file cannot be read, and does not touch the Progress Table.
C19_ChecksumCorrect == []C19_Result /\ [][C19_TableUntouched]_vars

C19_Witness ==
    /\ checked.pc = "done"
    /\ checked.ret = [kind |-> "Ok", value |-> TRUE]
    /\ checked.expected_md5 # LowerHex(Md5Compute(ChecksumFiles[checked.path].bytes))
    /\ table # EmptyTable

\* C21: a transfer goes on to open its staging file only when the status of
\* its GET response is 200 or 206; any other status, the other 2xx included,
\* makes download_file return before it opens or renames anything.
C21_Only200Or206 ==
    \A id \in Games :
        task[id].pc \in {"open", "stream", "update", "complete"} =>
            task[id].status \in {200, 206}

\* the offset the resume rule gives: the size of the staging file when resume
\* is set and the file exists with 20 MiB or more, else 0
ResumeRule(resume, f) ==
    IF resume /\ f.exists /\ FileLen(f) >= 20 * 1024 * 1024 THEN FileLen(f) ELSE 0

\* C22: the offset download_file starts from is the size of the staging file
\* exactly when resume is true and the file exists with at least 20 MiB, and 0
\* otherwise
C22_OffsetByRule ==
    \A id \in Games :
        (task[id].pc = "loop" /\ task'[id].pc = "head") =>
            task'[id].downloaded = ResumeRule(task[id].resume, fs[temp_path(id)])

\* C22: the GET carries the header Range: bytes=<offset>- exactly when the
\* offset is above 0
C22_RangeIffOffset ==
    \A id \in Games :
        task[id].pc \in {"open", "stream", "update", "complete"} =>
            /\ task[id].header # None <=> task[id].range > 0
            /\ task[id].header # None => task[id].header = Some(task[id].range)

\* C22: the resumed offset follows the resume rule, boundary included, and the
\* Range header is attached exactly when the offset is above 0
C22_ResumeOffsetAndRange == [][C22_OffsetByRule]_vars /\ []C22_RangeIffOffset

\* a transfer called with resume resumes a staging file of exactly 20 MiB and
\* sends its GET with the Range header
C22_Witness ==
    \E id \in Games :
        /\ task[id].pc = "open"
        /\ task[id].resume
        /\ task[id].range = MINIMUM_RESUME_SIZE
        /\ task[id].header = Some(MINIMUM_RESUME_SIZE)

\* C23: a transfer that started at offset 0 holds in its file exactly the
\* bytes it has received
C23_FreshContent ==
    \A id \in Games :
        (task[id].pc \in {"stream", "update", "complete"} /\ task[id].range = 0) =>
            TransferFile(id).data =
                AppendBlock(<<>>, [src |-> save_path(id), lo |-> 0,
                                   hi |-> task[id].downloaded])

\* C23: a transfer that started at an offset above 0 only appends to its
\* staging file
C23_AppendOnly ==
    \A id \in Games :
        (/\ task[id].pc \in {"open", "stream", "update"}
         /\ task[id].range > 0
         /\ fs'[temp_path(id)].exists) =>
            /\ fs[temp_path(id)].exists
            /\ IsBytePrefix(fs[temp_path(id)].data, fs'[temp_path(id)].data)

\* C23: a staging file is created or cut only by a transfer at offset 0 whose
\* GET response was accepted
C23_TruncatesAfterAccept ==
    \A p \in FinalPaths :
        LET old == fs[StagingOf(p)]
            new == fs'[StagingOf(p)]
        IN (new.exists /\ (~old.exists \/ ~IsBytePrefix(old.data, new.data))) =>
              \E id \in Games :
                  /\ task[id].pc = "open"
                  /\ save_path(id) = p
                  /\ task[id].downloaded = 0
                  /\ Accepted(task[id].status)
                  /\ <<p, "GET">> \in net[id]

\* C23: at offset 0 the staging file is created or truncated, so that it holds
\* the bytes of this attempt only; above 0 it is appended to and never
\* truncated; and nothing is truncated before the GET response was accepted
C23_TruncateOrAppend ==
    /\ []C23_FreshContent
    /\ [][C23_AppendOnly /\ C23_TruncatesAfterAccept]_vars

\* a transfer called without resume has written its first chunk into a fresh
\* staging file
C23_Witness ==
    \E id \in Games :
        /\ task[id].pc = "update"
        /\ ~task[id].resume
        /\ task[id].range = 0
        /\ task[id].downloaded = ChunkLen
        /\ FileLen(fs[temp_path(id)]) = ChunkLen

\* C26: the per-chunk step of a transfer whose record reads Paused records the
\* chunk and goes on to the next one, and the record stays Paused
C26_PausedStepGoesOn ==
    \A id \in Games :
        (/\ task[id].pc = "update"
         /\ task'[id] # task[id]
         /\ id \in DOMAIN table
         /\ table[id].status = "Paused") =>
            /\ task'[id].pc = "stream"
            /\ task'[id].body = task[id].body
            /\ table'[id].status = "Paused"
            /\ table'[id].downloaded = task[id].downloaded
            /\ table'[id].downloaded > table[id].downloaded
            /\ fs' = fs

\* C26: the per-chunk check ends the transfer on Cancelled only
C26_AbortsOnCancelledOnly ==
    \A id \in Games :
        (task[id].pc = "update" /\ task'[id].pc = "loop") =>
            /\ id \in DOMAIN table
            /\ table[id].status = "Cancelled"
            /\ task'[id].ret = Err("DownloadError", "Download cancelled")

\* C26: a transfer whose record reads Paused can write its next chunk
C26_PausedCanWrite ==
    \A id \in Games :
        (/\ task[id].pc = "stream"
         /\ task[id].body.hi > task[id].body.lo
         /\ id \in DOMAIN table
         /\ table[id].status = "Paused") =>
            ENABLED (StreamNext(id) /\ task'[id].pc = "update")

\* C26: pause_download during streaming does not abort the transfer:
\* download_file keeps appending chunks and raising downloaded while the status
\* reads Paused, and its per-chunk check aborts on Cancelled only
C26_PauseDoesNotAbort ==
    /\ []C26_PausedCanWrite
    /\ [][C26_PausedStepGoesOn /\ C26_AbortsOnCancelledOnly]_vars

\* a paused transfer has written and recorded chunks and renamed its file
C26_Witness ==
    \E id \in Games :
        /\ task[id].pc = "complete"
        /\ id \in DOMAIN table
        /\ table[id].status = "Paused"
        /\ table[id].downloaded = task[id].downloaded
        /\ task[id].downloaded > task[id].range
        /\ fs[save_path(id)].exists

\* C27: from the GET request of a transfer until its return the table holds a
\* record for its id
C27_RecordWhileTransfer ==
    \A id \in Games :
        task[id].pc \in {"get", "open", "stream", "update", "complete"} =>
            id \in DOMAIN table

\* C27: the insert comes before the GET and writes status Downloading and
\* downloaded = the resumed offset
C27_InsertBeforeGet ==
    \A id \in Games :
        /\ (task[id].pc = "insert" /\ task'[id].pc = "get") =>
              /\ <<save_path(id), "GET">> \notin net'[id]
              /\ id \in DOMAIN table'
              /\ table'[id].status = "Downloading"
              /\ table'[id].downloaded = ResumeOffset(task[id].resume, fs[temp_path(id)])
        /\ net'[id] \ net[id] # {} /\ (\E e \in net'[id] \ net[id] : e[2] = "GET") =>
              id \in DOMAIN table

\* C27: download_file inserts the record of its id, with status Downloading
\* and downloaded = the resumed offset, before it issues the GET, so the table
\* holds a record whenever the GET has been sent or a chunk written
C27_RecordBeforeGet == []C27_RecordWhileTransfer /\ [][C27_InsertBeforeGet]_vars

\* a resumed transfer whose GET was answered: its record is in the table and
\* started at the resumed offset
C27_Witness ==
    \E id \in Games :
        /\ task[id].pc = "open"
        /\ <<save_path(id), "GET">> \in net[id]
        /\ task[id].range >= MINIMUM_RESUME_SIZE
        /\ id \in DOMAIN table
        /\ table[id].status = "Downloading"
        /\ table[id].downloaded = task[id].range

\* C28: the downloaded of the record of a running transfer is at most the
\* number of bytes in the file of that transfer
C28_RecordWithinFile ==
    \A id \in Games :
        (task[id].pc \in {"get", "open", "stream", "update", "complete"}
            /\ id \in DOMAIN table) =>
            table[id].downloaded <= FileLen(TransferFile(id))

\* C28: each update of downloaded within one download_file raises it, to a
\* count of bytes that are already written
C28_UpdateFollowsWrite ==
    \A id \in Games :
        (task[id].pc = "update" /\ task'[id] # task[id] /\ id \in DOMAIN table) =>
            /\ table'[id].downloaded > table[id].downloaded
            /\ table'[id].downloaded <= FileLen(fs[temp_path(id)])

C29_NoRemoval == DOMAIN table \subseteq DOMAIN table'

\* C29: get_progress(id) returns the record of an id that has one, and
\* get_active_downloads returns every record of the table, the Completed and
\* Cancelled ones included
C29_ReadsReturnRecords ==
    LET new == polled'
    IN /\ (new # polled /\ new.op = "get_progress" /\ new.id \in DOMAIN table) =>
             new.progress = Some(table[new.id])
       /\ (new # polled /\ new.op = "get_active_downloads") =>
             \A id \in DOMAIN table : table[id] \in new.active

\* C29: no operation removes a record from the table: once an id has a record
\* get_progress(id) returns one in every later state, and get_active_downloads
\* keeps returning it after it reached Completed or Cancelled
C29_RecordsStay == [][C29_NoRemoval /\ C29_ReadsReturnRecords]_vars

\* get_active_downloads returned the records of both games, one of them
\* Completed, after the tasks were over
C29_Witness ==
    /\ polled.op = "get_active_downloads"
    /\ Cardinality(polled.active) = 2
    /\ \E r \in polled.active : r.status = "Completed"
    /\ \E r \in polled.active : r.status = "Cancelled"
    /\ polled.active = { table[id] : id \in DOMAIN table }
    /\ \A id \in Games : task[id].pc = "idle"

\* the path with a suffix appended to its file name
Appended(p, e) == [stem |-> p.stem \o "." \o p.ext, ext |-> e]

\* C30: the staging path of a transfer is its final path with .part appended,
\* so no other file of the game, having another final path, has the same
\* staging path
C30_StagingIsFinalPlusPart ==
    \A id \in Games :
        task[id].pc \in {"head", "insert", "get", "open", "stream", "update"} =>
            /\ temp_path(id) = Appended(save_path(id), "part")
            /\ \A j \in 1..Len(catalog[id]) :
                  catalog[id][j] # save_path(id) =>
                      with_extension(catalog[id][j], "part") # temp_path(id)

\* C24: while the task of a request runs, a file that was present when
\* start_download looked gets no HEAD and no GET, and neither its final file
\* nor its staging file changes
C24_PresentFileUntouched ==
    \A id \in Games :
        (task[id].pc # "idle" /\ task'[id].pc # "idle") =>
            \A i \in 1..Len(catalog[id]) :
                ~task[id].needs_download[i] =>
                    /\ <<catalog[id][i], "HEAD">> \notin net'[id]
                    /\ <<catalog[id][i], "GET">> \notin net'[id]
                    /\ fs'[catalog[id][i]] = fs[catalog[id][i]]
                    /\ fs'[StagingOf(catalog[id][i])] = fs[StagingOf(catalog[id][i])]

\* C24: a file that was missing is not skipped: the loop goes past it only
\* through a download_file called with resume = true
C24_MissingFileFetched ==
    \A id \in Games :
        (/\ task[id].pc = "loop"
         /\ task'[id] # task[id]
         /\ task[id].idx <= Len(catalog[id])
         /\ task[id].needs_download[task[id].idx]) =>
            /\ task[id].resume
            /\ \/ task'[id].pc = "head"
               \/ task'[id].ret = Err("FileSystemError", "metadata")

\* C24: the flags are those start_download computed before the spawn
C24_DecidedOnce ==
    \A id \in Games :
        /\ (task[id].pc = "idle" /\ task'[id].pc # "idle") =>
              task'[id].needs_download =
                  [i \in 1..Len(catalog[id]) |-> ~fs[catalog[id][i]].exists]
        /\ (task[id].pc # "idle" /\ task'[id].pc # "idle") =>
              task'[id].needs_download = task[id].needs_download

\* C24: in a request with several files, a file whose final path exists when
\* start_download evaluates it is never fetched and its staging and final file
\* stay untouched, every missing file is fetched with resume = true, and the
\* decision is taken once, before the task is spawned
C24_FetchOnlyMissing ==
    [][C24_PresentFileUntouched /\ C24_MissingFileFetched /\ C24_DecidedOnce]_vars

\* the steps in which download_file holds no network or file operation open:
\* the three blocks that write the record
InBlock(id) == task[id].pc \in {"insert", "update", "complete"}

\* C25: a task holds the lock of the table only inside the block of the
\* insert, of a chunk's update or of the completion, never while it waits for
\* the HEAD, the GET or the next chunk or writes or renames the staging file
C25_LockOnlyInBlocks == \A id \in Games : task[id].locked => InBlock(id)

\* C25: a call that awaits the lock of the table gets it whenever no task is
\* inside one of its blocks, whatever the transfers wait for; and a task that
\* holds the lock can release it by its next step
C25_CallsNeedNotWait ==
    /\ (AwaitsTable /\ \A id \in Games : ~task[id].locked) => ENABLED CallLockTable
    /\ \A id \in Games :
          task[id].locked =>
              ENABLED (InsertProgress(id) \/ UpdateProgress(id) \/ Complete(id))

\* C25: the lock is taken once per block, and the step after taking it writes
\* the record and releases it, with no request sent and no file written
C25_LockSteps ==
    \A id \in Games :
        /\ (~task[id].locked /\ task'[id].locked) =>
              /\ InBlock(id)
              /\ task'[id] = [task[id] EXCEPT !.locked = TRUE]
        /\ (task[id].locked /\ task'[id] # task[id]) =>
              /\ ~task'[id].locked
              /\ task'[id].pc # task[id].pc
              /\ fs' = fs
              /\ net' = net

\* C25: the lock of the table is never held while a task waits on network I/O
\* or writes or renames the staging file: download_file takes it once for the
\* insert, once per chunk and once for the completion and releases it before
\* its next await on I/O, so get_progress, pause_download and cancel_download
\* issued during a transfer get the lock without waiting for the transfer
C25_LockNotHeldOverIO ==
    /\ [](C25_LockOnlyInBlocks /\ C25_CallsNeedNotWait)
    /\ [][C25_LockSteps]_vars

\* cancel_download holds the lock of the table while the transfer of its id,
\* one chunk written, waits for the next chunk
C25_Witness ==
    /\ call.pc = "table"
    /\ call.op = "cancel_download"
    /\ task[call.id].pc = "stream"
    /\ task[call.id].downloaded = ChunkLen
    /\ task[call.id].body.hi > task[call.id].body.lo
    /\ table[call.id].downloaded = ChunkLen

\* download_file returns an error in this step
FailsAt(id, pc) ==
    /\ task[id].pc = pc
    /\ task'[id].pc = "loop"
    /\ task'[id] # task[id]
    /\ task'[id].ret # Ok
    /\ task'[id].ret # task[id].ret \/ task'[id].idx # task[id].idx

\* C31: the error download_file returns is a NetworkError for the connection
\* and HTTP-status failures of HEAD and GET, a FileSystemError for the create,
\* open, write and rename failures, and an error of a kind of its own for an
\* observed cancellation; a missing content-length is no error
C31_ErrorTaxonomy ==
    [][\A id \in Games :
          /\ (FailsAt(id, "head") \/ FailsAt(id, "get")) =>
                task'[id].ret.kind = "NetworkError"
          /\ FailsAt(id, "open") => task'[id].ret.kind = "FileSystemError"
          /\ (FailsAt(id, "loop") /\ task[id].idx <= Len(catalog[id])
                 /\ task[id].needs_download[task[id].idx]) =>
                task'[id].ret.kind = "FileSystemError"
          /\ FailsAt(id, "stream") =>
                task'[id].ret.kind \in {"NetworkError", "FileSystemError"}
          /\ FailsAt(id, "update") =>
                task'[id].ret.kind \notin {"NetworkError", "FileSystemError"}
          /\ (task[id].pc = "head" /\ task'[id].pc = "insert") =>
                task'[id].ret = NoRet]_vars

\* C32: a transfer that cancel_download hit while it was streaming stays
\* cancelled until its next chunk check, whatever pause_download or
\* cancel_download calls follow: its record reads Cancelled and the check
\* returns the cancellation error
C32_CancelNeverRevived ==
    /\ [](\A id \in Games :
            (cancelled[id] /\ Streaming(id)) =>
                (id \in DOMAIN table /\ table[id].status = "Cancelled"))
    /\ [][\A id \in Games :
            (cancelled[id] /\ task[id].pc = "update" /\ task'[id].pc = "stream") =>
                FALSE]_vars

\* C33: a download_file that a cancel_download met after start_download had
\* returned, at whatever step before its last chunk check, the HEAD probe
\* included, does not create its final file
C33_CancelAlwaysAborts ==
    \A id \in Games :
        task[id].pc = "complete" => noted[id] # <<requests, task[id].idx>>

\* C34: once a download_file of a request has returned the cancellation error,
\* the task of the request calls download_file for no later file: it sends no
\* further HEAD or GET, and its steps leave the record of the id Cancelled
C34_NoFetchAfterCancel ==
    [][\A id \in Games :
          (/\ task[id].pc = "loop"
           /\ task[id].ret = Err("DownloadError", "Download cancelled")
           /\ task'[id] # task[id]) =>
              /\ task'[id].pc \in {"loop", "idle"}
              /\ task'[id].ret \in {task[id].ret, NoRet}
              /\ net'[id] = net[id]
              /\ table' = table]_vars

\* C35: while the task of a request runs, the record of its id reads Completed
\* only when every file that the request had to fetch exists at its final path
C35_CompletedMeansAllFiles ==
    \A id \in Games :
        (/\ task[id].pc # "idle"
         /\ id \in DOMAIN table
         /\ table[id].status = "Completed") =>
            \A i \in 1..Len(catalog[id]) :
                task[id].needs_download[i] => fs[catalog[id][i]].exists

\* C36: the requests a task sends and the records it writes are those of the
\* file its loop is at
C36_OneFileAtATime ==
    \A id \in Games :
        LET file == catalog[id][task[id].idx]
        IN /\ \A e \in net'[id] \ net[id] : task'[id].pc # "loop" => e[1] = file
           /\ (task'[id] # task[id] /\ table' # table /\ task[id].pc # "idle") =>
                 table'[id].file_name = file

\* C36: the loop goes through the list in order, one file per turn, and starts
\* the HEAD of a file only when the download_file of the file before it has
\* returned
C36_ListOrder ==
    \A id \in Games :
        /\ (task[id].pc # "idle" /\ task'[id].pc # "idle") =>
              /\ task'[id].idx \in {task[id].idx, task[id].idx + 1}
              /\ task'[id].idx = task[id].idx + 1 <=>
                    (task[id].pc # "loop" /\ task'[id].pc = "loop") \/
                    (task[id].pc = "loop" /\ task'[id].pc = "loop"
                        /\ task'[id] # task[id])
        /\ (task[id].pc # "head" /\ task'[id].pc = "head") => task[id].pc = "loop"

\* C36: within one start_download request the files are fetched strictly one
\* after another in list order, so at most one transfer of the request writes
\* the record of the shared id at any time
C36_FilesInSequence == [][C36_OneFileAtATime /\ C36_ListOrder]_vars

\* the task is at the GET of the second file after the GET of the first
C36_Witness ==
    \E id \in Games :
        /\ task[id].idx = 2
        /\ task[id].pc = "open"
        /\ <<catalog[id][1], "GET">> \in net[id]
        /\ <<catalog[id][2], "GET">> \in net[id]
        /\ table[id].file_name = catalog[id][2]

\* the task of the request is running and no download_file of it has inserted
\* a record: it has sent no GET and is before the insert of its current file
NothingInserted(id) ==
    /\ task[id].pc \in {"loop", "head", "insert"}
    /\ \A e \in net[id] : e[2] # "GET"

\* C37: download_and_install leaves its polling loop, to install or with an
\* error, only on a record of the transfer it started: never while the task it
\* spawned has inserted nothing, be it on a record an earlier attempt left or
\* on finding no record
C37_ActsOnOwnRecord ==
    [][\A id \in Games :
          (caller[id].pc = "poll" /\ caller'[id].pc # "poll") =>
              ~NothingInserted(id)]_vars

\* C39: a record whose total is known never shows more bytes downloaded than
\* its total
C39_DownloadedWithinTotal ==
    \A id \in DOMAIN table :
        table[id].total > 0 => table[id].downloaded <= table[id].total

\* the staging file of the first file of game id holds the whole file, 20 MiB
\* or more, and the file is not at its final path
FullStaging(id) ==
    /\ fs[StagingOf(catalog[id][1])] = ServerFile(catalog[id][1])
    /\ ServerSize(catalog[id][1]) >= MINIMUM_RESUME_SIZE
    /\ ~fs[catalog[id][1]].exists

\* C40: a staging file that already holds every byte of the file is promoted
\* to the final path, and the record reads Completed, after some of the
\* repeated download_file calls with resume = true
C40_FullStagingPromoted ==
    \A id \in Ids :
        FullStaging(id) ~>
            (/\ fs[catalog[id][1]].exists
             /\ id \in DOMAIN table
             /\ table[id].status = "Completed")

\* the task of game id asks for the lock of the DownloadManager
TaskAwaitsManager(id) ==
    /\ task[id].pc = "loop"
    /\ task[id].idx <= Len(catalog[id])
    /\ task[id].needs_download[task[id].idx]

\* the task of game id asks for the lock of the table
TaskAwaitsTable(id) == InBlock(id) /\ ~task[id].locked

====
